---------------------------- MODULE Spec2Model ----------------------------
(***************************************************************************)
(* Model of supercooling.py (class Evolution): the time-stepping engine    *)
(* that grows the inner core under a supercooling-driven growth law.       *)
(*                                                                         *)
(* The object is the record `self`: the two scenario inputs (delta_T,      *)
(* Qcmb), the time grid and the six state arrays.  A numpy array of        *)
(* length n is a function on 0..n-1; a negative index wraps as in Python.  *)
(*                                                                         *)
(* Arithmetic.  The source computes in floating point; the model computes  *)
(* in integers.  Lengths are in units of 100 km (longueur = 65, rc = 36),  *)
(* temperatures in kelvin (TFe0 = 6500), gamma is the fraction 3/2.  The   *)
(* other material constants keep their sign and their place in the         *)
(* formulas and take small integer values, so that every product is exact. *)
(* exp(-x) is a fixed-point Taylor polynomial (ExpNeg), exact at x = 0.    *)
(*                                                                         *)
(* The grid is np.linspace(0, 500*year, 1e3): a thousand samples in the     *)
(* source, n samples (n >= 2, MinN) in the model, over a horizon that the   *)
(* grid lengths tried divide.                                               *)
(*                                                                         *)
(* scipy's fsolve is a library routine.  It is deterministic: the pair it  *)
(* returns and its status are a function of the arguments of icoregrowth.  *)
(* The model leaves that function arbitrary: the first call with given     *)
(* arguments draws an answer from small sets, `fsolve` remembers it, and   *)
(* a later call with the same arguments gets the same answer.              *)
(***************************************************************************)
EXTENDS Integers, Sequences, FiniteSets, TLC

VARIABLES
    self,       \* the Evolution object: inputs, time grid, state arrays
    pc,         \* "idle" | "const" | "run" | "done": position in the run methods
    i,          \* loop index of `for i, t in enumerate(self.time[1:])`
    T_center,   \* local variable T_center of the run methods
    fsolve,     \* answers fsolve has given so far, by icoregrowth arguments
    stdout,     \* what icoregrowth has printed
    calls,      \* completed method calls, each with the object as it left it
    budget      \* method calls still allowed in this behaviour

vars == <<self, pc, i, T_center, fsolve, stdout, calls, budget>>

--------------------------------------------------------------------------
(* Bounds of the model. *)

\* largest grid length of a single-run behaviour (the source uses 1000)
MaxN == 4
\* largest growth rate fsolve returns
MaxDr == 1
\* method calls on one object in a sequencing behaviour
MaxRuns == 2
\* the larger of the two boundary heat fluxes tried
QcmbHigh == 100
\* fixed-point scale of ExpNeg: four decimal places
ExpScale == 10000

--------------------------------------------------------------------------
(* Program constants, Evolution.__init__. *)

longueur == 65
rc == 36
G == 1
rho0 == 1
cp == 1
LFe == 5
TFe0 == 6500
GammaNum == 3
GammaDen == 2
eta_c == 1
Mc == 1
Eg == 2
Pi == 3
\* 500*year, the end of the time grid
Horizon == 12
\* self.time[1] must exist: the grid has at least two samples
MinN == 2
\* fsolve's status for a converged solve
IerrOk == 1
\* one of fsolve's statuses for a failed solve
IerrFail == 5
\* the script's scenario, Evolution(delta_T, 1e-12) with delta_T = 100; a flux
\* of 1e-12 is zero in the model's units
ScriptDeltaT == 100
ScriptQcmb == 0

\* boundary heat fluxes tried: the script's, and one a growing core can fall below
QcmbVals == {ScriptQcmb, QcmbHigh}
\* initial undercoolings tried: none, and the script's
DeltaTVals == {0, ScriptDeltaT}
\* growth rates fsolve may return; a negative one is not filtered by the engine
DrVals == -1 .. MaxDr
IerrVals == {IerrOk, IerrFail}

--------------------------------------------------------------------------
(* numpy helpers. *)

Abs(x) == IF x < 0 THEN -x ELSE x

Size(a) == Cardinality(DOMAIN a)

\* a[k] for a Python index k: a negative index counts from the end
At(a, k) == IF k < 0 THEN a[k + Size(a)] ELSE a[k]

\* np.linspace(start, stop, num)
linspace(start, stop, num) ==
    [k \in 0 .. (num - 1) |-> start + ((stop - start) * k) \div (num - 1)]

\* np.zeros_like(a)
zeros_like(a) == [k \in DOMAIN a |-> 0]

\* floor(a * f / ExpScale) without forming a * f
MulFix(a, f) == (a \div ExpScale) * f + ((a % ExpScale) * f) \div ExpScale

\* np.exp(-num/den) in fixed point, for 0 <= num/den <= 1:
\* 1 - x(1 - x/2 (1 - x/3 (1 - x/4)))
ExpNeg(num, den) ==
    LET x  == (num * ExpScale) \div den
        h4 == ExpScale - x \div 4
        h3 == ExpScale - (x * h4) \div (3 * ExpScale)
        h2 == ExpScale - (x * h3) \div (2 * ExpScale)
    IN  ExpScale - (x * h2) \div ExpScale

--------------------------------------------------------------------------
(* Profile functions and feedback law. *)

T_is(radius, T0) ==
    MulFix(T0, ExpNeg(radius * radius, longueur * longueur))

\* 2*(1 - 1/3/gamma) = 2*(3*gamma - 1)/(3*gamma), gamma = GammaNum/GammaDen
T_Fe(radius, xi) ==
    MulFix(TFe0, ExpNeg(2 * (3 * GammaNum - GammaDen) * radius * radius,
                        3 * GammaNum * longueur * longueur)) - xi

QLQG(dricdt, ric) ==
    LET Aic == 4 * Pi * ric * ric
    IN  (LFe + Eg) * rho0 * dricdt * Aic

dTcmb(Qcmb, dricdt, ric) ==
    (eta_c * (QLQG(dricdt, ric) - Qcmb)) \div (Mc * cp)

--------------------------------------------------------------------------
(* The growth-rate solver. *)

\* interface temperatures fsolve may return: its initial guess T, or the
\* melting temperature Tm of func (no undercooling left at the interface)
TiVals(T, ric, cc) == {T, T_Fe(ric, cc)}

\* a solve whose answer is not a function of its arguments alone (say, one that
\* starts from the previous solution kept on the object)
icoregrowth_stateful(T, ric, cc) ==
    [a0 : DrVals, a1 : TiVals(T, ric, cc), ierr : IerrVals]

\* icoregrowth(T, ric, cc): the answers fsolve can give.  a0, a1 are a[0], a[1].
icoregrowth(T, ric, cc) ==
    IF <<T, ric, cc>> \in DOMAIN fsolve
    THEN {fsolve[<<T, ric, cc>>]}
    ELSE [a0 : DrVals, a1 : TiVals(T, ric, cc), ierr : IerrVals]

\* fsolve after answering `sol` to the arguments `args`
Remember(args, sol) ==
    IF args \in DOMAIN fsolve THEN fsolve ELSE (args :> sol) @@ fsolve

\* `if ierr != 1: print(ierr, a, msg)`
Printed(sol) ==
    IF sol.ierr # IerrOk
    THEN Append(stdout, <<sol.ierr, sol.a0, sol.a1>>)
    ELSE stdout

--------------------------------------------------------------------------
(* The object. *)

Arrays == {"dric", "ric", "Tic", "supercooling", "Tis_center", "Tcmb"}

\* Evolution.__init__(delta_T, Qcmb) with a grid of n samples
Evolution(delta_T, Qcmb, n) ==
    LET time == linspace(0, Horizon, n)
    IN  [delta_T |-> delta_T, Qcmb |-> Qcmb,
         time |-> time, dt |-> time[1] - time[0],
         dric |-> zeros_like(time), ric |-> zeros_like(time),
         Tic |-> zeros_like(time), supercooling |-> zeros_like(time),
         Tis_center |-> zeros_like(time), Tcmb |-> zeros_like(time)]

\* a reset that skips the two arrays constant mode never steps
reinitilization_partial(s) ==
    [s EXCEPT !.dric = zeros_like(s.time), !.ric = zeros_like(s.time),
              !.Tic = zeros_like(s.time), !.supercooling = zeros_like(s.time)]

reinitilization(s) ==
    [s EXCEPT !.dric = zeros_like(s.time), !.ric = zeros_like(s.time),
              !.Tic = zeros_like(s.time), !.supercooling = zeros_like(s.time),
              !.Tis_center = zeros_like(s.time), !.Tcmb = zeros_like(s.time)]

\* T_center = self.T_Fe(0., 0.) - self.delta_T
InitialCenter(s) == T_Fe(0, 0) - s.delta_T

\* the five assignments to sample 0 that open both run methods
InitialConditions(s, Tc) ==
    [s EXCEPT !.dric[0] = G * s.delta_T * s.delta_T,
              !.Tic[0] = Tc,
              !.supercooling[0] = s.delta_T,
              !.Tis_center[0] = Tc,
              !.Tcmb[0] = T_is(rc, Tc)]

\* the indices of `enumerate(self.time)`: one iteration per sample
LoopIndices_all(s) == 0 .. (Size(s.time) - 1)

\* the indices of `enumerate(self.time[1:])`
LoopIndices(s) == 0 .. (Size(s.time) - 2)

\* body of the loop of run_constant_temperature, after the solve
ConstBody(s, k, sol) ==
    LET r == At(s.ric, k - 1) + sol.a0 * s.dt
    IN  [s EXCEPT !.dric[k] = sol.a0,
                  !.Tic[k] = sol.a1,
                  !.ric[k] = r,
                  !.supercooling[k] = Abs(T_Fe(r, 0) - sol.a1)]

\* body of the loop of run, after the solve
RunBody(s, k, sol) ==
    LET r  == At(s.ric, k - 1) + sol.a0 * s.dt
        Tc == At(s.Tis_center, k - 1) + dTcmb(s.Qcmb, sol.a0, r) * s.dt
    IN  [s EXCEPT !.dric[k] = sol.a0,
                  !.Tic[k] = sol.a1,
                  !.ric[k] = r,
                  !.supercooling[k] = Abs(T_Fe(r, 0) - sol.a1),
                  !.Tis_center[k] = Tc,
                  !.Tcmb[k] = T_is(r, Tc)]

--------------------------------------------------------------------------
(* Actions. *)

\* the object `obj` just constructed, `runs` method calls ahead
Constructed(obj, runs) ==
    /\ self = obj
    /\ pc = "idle"
    /\ i = 0
    /\ T_center = 0
    /\ fsolve = <<>>
    /\ stdout = <<>>
    /\ calls = <<>>
    /\ budget = runs

\* one run, for either input and a grid of any length up to MaxN
Init ==
    \E d \in DeltaTVals, q \in QcmbVals, n \in MinN .. MaxN :
        Constructed(Evolution(d, q, n), 1)

\* several runs in sequence on the script's object, on the shortest grid that
\* has a sample between the first and the last
InitSeq == Constructed(Evolution(ScriptDeltaT, ScriptQcmb, MinN + 1), MaxRuns)

\* run_constant_temperature(), up to the loop
StartConst ==
    /\ pc \in {"idle", "done"}
    /\ budget > 0
    /\ budget' = budget - 1
    /\ T_center' = InitialCenter(reinitilization(self))
    /\ self' = InitialConditions(reinitilization(self), T_center')
    /\ i' = 0
    /\ pc' = "const"
    /\ UNCHANGED <<fsolve, stdout, calls>>

\* run(), up to the loop
StartRun ==
    /\ pc \in {"idle", "done"}
    /\ budget > 0
    /\ budget' = budget - 1
    /\ T_center' = InitialCenter(reinitilization(self))
    /\ self' = InitialConditions(reinitilization(self), T_center')
    /\ i' = 0
    /\ pc' = "run"
    /\ UNCHANGED <<fsolve, stdout, calls>>

\* the loop's control after iteration i: next iteration, or the method returns
Advance(method) ==
    /\ i' = i + 1
    /\ IF i + 1 \in LoopIndices(self)
       THEN pc' = pc /\ calls' = calls
       ELSE pc' = "done"
            /\ calls' = Append(calls, [method |-> method, result |-> self'])

\* one iteration of the loop of run_constant_temperature
StepConst ==
    /\ pc = "const"
    /\ i \in LoopIndices(self)
    /\ \E sol \in icoregrowth(T_center, At(self.ric, i - 1), 0) :
         /\ fsolve' = Remember(<<T_center, At(self.ric, i - 1), 0>>, sol)
         /\ stdout' = Printed(sol)
         /\ self' = ConstBody(self, i, sol)
    /\ Advance("const")
    /\ UNCHANGED <<T_center, budget>>

\* one iteration of the loop of run
StepRun ==
    /\ pc = "run"
    /\ i \in LoopIndices(self)
    /\ \E sol \in icoregrowth(At(self.Tis_center, i - 1), At(self.ric, i - 1), 0) :
         /\ fsolve' = Remember(<<At(self.Tis_center, i - 1), At(self.ric, i - 1), 0>>, sol)
         /\ stdout' = Printed(sol)
         /\ self' = RunBody(self, i, sol)
    /\ Advance("run")
    /\ UNCHANGED <<T_center, budget>>

Next == StartConst \/ StartRun \/ StepConst \/ StepRun

Spec == Init /\ [][Next]_vars

SpecSeq == InitSeq /\ [][Next]_vars

--------------------------------------------------------------------------
(* Vocabulary of the properties. *)

N == Size(self.time)

\* the run method that is executing, or that returned last
Method ==
    IF pc \in {"const", "run"} THEN pc
    ELSE IF calls # <<>> THEN calls[Len(calls)].method
    ELSE "none"

Completed == pc = "done"

\* the value the center temperature has before iteration k of the current run
CenterBefore(k) == IF k = 0 THEN T_center ELSE self.Tis_center[k - 1]

\* the answer fsolve has given to `args`; no answer is all zeros
Answer(args) ==
    IF args \in DOMAIN fsolve THEN fsolve[args]
    ELSE [a0 |-> 0, a1 |-> 0, ierr |-> 0]

\* the loop of `method` from iteration k on, applied to s, with fsolve's answers
RECURSIVE Sweep(_, _, _)
Sweep(s, k, method) ==
    IF k \notin LoopIndices(s) THEN s
    ELSE IF method = "const"
    THEN Sweep(ConstBody(s, k, Answer(<<InitialCenter(s), At(s.ric, k - 1), 0>>)),
               k + 1, method)
    ELSE Sweep(RunBody(s, k, Answer(<<At(s.Tis_center, k - 1), At(s.ric, k - 1), 0>>)),
               k + 1, method)

\* what `method` leaves when called on a freshly constructed object
OnFreshObject(method) ==
    LET fresh == Evolution(self.delta_T, self.Qcmb, N)
    IN  Sweep(InitialConditions(reinitilization(fresh), InitialCenter(fresh)),
              0, method)

--------------------------------------------------------------------------
(* C1: after a run method returns, sample 0 still holds the initial         *)
(* conditions: ric[0] = 0, dric[0] = G*delta_T^2, Tic[0] = T_Fe(0) -        *)
(* delta_T, supercooling[0] = delta_T.                                      *)
C1_Sample0KeepsInitialConditions ==
    Completed =>
        /\ self.ric[0] = 0
        /\ self.dric[0] = G * self.delta_T * self.delta_T
        /\ self.Tic[0] = T_Fe(0, 0) - self.delta_T
        /\ self.supercooling[0] = self.delta_T

(* C2: in run(), iteration k passes to the solver the center temperature    *)
(* left by the step before it (the initial center temperature for k = 0),   *)
(* and Tis_center[k] is that same value plus the step's increment.          *)
C2_SolverSeesPreviousCenter ==
    Method = "run" =>
        \A k \in 0 .. (i - 1) :
            /\ \E args \in DOMAIN fsolve : args[1] = CenterBefore(k)
            /\ self.Tis_center[k] =
                   CenterBefore(k)
                   + dTcmb(self.Qcmb, self.dric[k], self.ric[k]) * self.dt

(* C3: a completed constant-temperature run with delta_T > 0 and no         *)
(* negative growth rate has ric[k] <= ric[k+1] for every 0 <= k < N-1, the  *)
(* last sample included.                                                    *)
C3_RadiusNonDecreasing ==
    ( /\ Completed
      /\ Method = "const"
      /\ self.delta_T > 0
      /\ \A k \in LoopIndices(self) : self.dric[k] >= 0 )
    => \A k \in 0 .. (N - 2) : self.ric[k] <= self.ric[k + 1]

(* C4: two calls of run_constant_temperature() in a row on one object leave *)
(* the same object: every array after the second equals the array after the *)
(* first.                                                                   *)
C4_ConstantRunIdempotent ==
    \A k \in 1 .. (Len(calls) - 1) :
        (calls[k].method = "const" /\ calls[k + 1].method = "const")
        => calls[k + 1].result = calls[k].result

\* two constant-temperature runs in a row, with growth and a failed solve
C4_Witness ==
    /\ Len(calls) >= 2
    /\ calls[1].method = "const"
    /\ calls[2].method = "const"
    /\ calls[2].result.ric[1] > calls[2].result.ric[0]
    /\ calls[2].result.ric[0] > 0
    /\ stdout # <<>>

(* C5: for every step k of run(), Tis_center[k] is strictly above the       *)
(* center temperature before the step when QLQG(dr, ric[k]) > Qcmb, and     *)
(* strictly below it when QLQG(dr, ric[k]) < Qcmb.                          *)
C5_FeedbackSign ==
    Method = "run" =>
        \A k \in 0 .. (i - 1) :
            LET q == QLQG(self.dric[k], self.ric[k])
            IN  /\ q > self.Qcmb => self.Tis_center[k] > CenterBefore(k)
                /\ q < self.Qcmb => self.Tis_center[k] < CenterBefore(k)

(* C6: a solve that reports failure (it is printed) writes nothing into     *)
(* dric, Tic or ric: the engine has no opt-in that would allow it.          *)
C6_UnconvergedNeverWritten ==
    [][ Len(stdout') > Len(stdout)
        => /\ self'.dric = self.dric
           /\ self'.Tic = self.Tic
           /\ self'.ric = self.ric ]_vars

(* C8: whatever calls came before, a run method leaves the object it would  *)
(* leave on a freshly constructed one; after run_constant_temperature()     *)
(* Tis_center and Tcmb are zero at every index >= 1.                        *)
C8_RunsStartFromReset ==
    Completed =>
        /\ self = OnFreshObject(Method)
        /\ Method = "const" =>
               \A j \in 1 .. (N - 1) :
                   self.Tis_center[j] = 0 /\ self.Tcmb[j] = 0

\* run() populated Tis_center and Tcmb past index 0, then constant mode ran
C8_Witness ==
    /\ Len(calls) >= 2
    /\ calls[1].method = "run"
    /\ calls[1].result.Tis_center[1] # 0
    /\ calls[1].result.Tcmb[1] # 0
    /\ calls[2].method = "const"
    /\ calls[2].result.ric[1] # 0

\* a loop iteration moves i up by one and changes no sample other than i
C9_IterationWritesOwnIndex ==
    (pc \in {"const", "run"}) =>
        /\ i' = i + 1
        /\ \A a \in Arrays : \A k \in 0 .. (N - 1) :
               (k # i) => (self'[a][k] = self[a][k])

(* C9: the loop is one forward sweep: iteration i writes index i only, i    *)
(* goes up by one, the method returns after index N-2, and index N-1 of     *)
(* every array stays at its zero-initialized value.                         *)
C9_LastSampleNeverWritten ==
    /\ [](pc \in {"const", "run", "done"} =>
            /\ \A a \in Arrays : self[a][N - 1] = 0
            /\ i <= N - 1
            /\ Completed => i = N - 1)
    /\ [][C9_IterationWritesOwnIndex]_vars

\* a completed run whose last computed values sit at index N-2
C9_Witness ==
    /\ Completed
    /\ N >= 3
    /\ self.ric[N - 2] # 0
    /\ self.dric[N - 2] # 0
    /\ self.Tic[N - 2] # 0
    /\ self.ric[N - 1] = 0

(* C10: a completed run satisfies ric[k] = ric[k-1] + dric[k]*dt for every  *)
(* index 1 <= k <= N-1.                                                     *)
C10_EulerRecurrence ==
    Completed =>
        \A k \in 1 .. (N - 1) :
            self.ric[k] = self.ric[k - 1] + self.dric[k] * self.dt

==========================================================================
